---- MODULE Spec2Model ----
(***************************************************************************)
(* Model of Hako's task-orchestration core: TaskExecutor::submit with its  *)
(* spawned task body (src/src/task/executor.rs) and TaskManager            *)
(* (src/src/task/manager.rs).  Every submit call, every spawned task body  *)
(* and every cleanup watcher is a process; one action is one step between  *)
(* two synchronisation points of the code (a lock of a registry, a         *)
(* semaphore, a Notify).                                                   *)
(***************************************************************************)
EXTENDS Naturals, Sequences, FiniteSets

\* ---------------------------------------------------------------- bounds
\* Number of submit calls made in one run; the call number is the TaskId.
NSub == 3
\* Largest max_concurrent a contract declares, and largest global ceiling.
MaxLimit == 2

Sub == 1..NSub

\* ------------------------------------------------------ contract inputs
Types == {"download"}
Keys == {"/cluster/foo", "/cluster/bar"}
LockSets == SUBSET Keys
\* Option<usize>: {} is None, {n} is Some(n).
Limits == {{}} \cup {{n} : n \in 1..MaxLimit}

\* What a Task value answers to type_name, requires_global_lock, queueable,
\* locks and max_concurrent.
Contracts ==
  [type : Types, rgl : BOOLEAN, queueable : BOOLEAN, locks : LockSets, max : Limits]

NoContract ==
  [type |-> "", rgl |-> FALSE, queueable |-> FALSE, locks |-> {}, max |-> {}]

VARIABLES
  ct,        \* ct[s]: the contract handed to submit call s
  seen,      \* seen[s]: the TaskId the gate of call s found running (0: none)
  spc,       \* spc[s]: position of submit call s
  tpc,       \* tpc[s]: position of the task body spawned by call s
  tstate,    \* tstate[s]: the handle's TaskState ("None" before it exists)
  res,       \* res[s]: what the body returned ("none", "Ok", "Err")
  sent,      \* sent[s]: what was published on the result channel
  wake,      \* wake[s]: the permit of the waiter's Notify
  running,   \* TaskExecutor.running: type -> TaskId
  queues,    \* TaskExecutor.queues: type -> sequence of waiting TaskIds
  held,      \* LockManager: the set of held keys
  glimit,    \* the ceiling TaskExecutor::new was given (Option)
  gsem,      \* free permits of global_semaphore
  tsem,      \* TaskExecutor.type_semaphores: type -> [cap, free] of the pool
  cancel,    \* cancel[s]: value of the task's watch channel
  tasks,     \* TaskManager.tasks: tracked TaskIds
  wpc,       \* wpc[s]: position of the cleanup watcher of task s
  cret,      \* what the last TaskManager::cancel call was given and returned
  unseen,    \* unseen[s]: the body's watch receiver has not seen the last send
  nwait,     \* nwait[s]: how many ctx.cancelled() calls of the body returned
  accounts,  \* AccountManager.accounts: the Vec of accounts
  current,   \* AccountManager.current: Option<usize>, as a set of 0 or 1 index
  aret       \* the last AccountManager call: operation, arguments, return

vars ==
  <<ct, seen, spc, tpc, tstate, res, sent, wake, running, queues, held, glimit,
    gsem, tsem, cancel, tasks, wpc, cret, unseen, nwait, accounts, current, aret>>

execVars ==
  <<ct, seen, spc, tpc, tstate, res, sent, wake, running, queues, held, glimit, gsem, tsem>>

mgrVars == <<cancel, tasks, wpc, cret>>

ctxVars == <<unseen, nwait>>

acctVars == <<accounts, current, aret>>

\* ------------------------------------------------------------- HashMap
EmptyMap == [x \in {} |-> 0]
MapPut(m, k, v) == [x \in DOMAIN m \cup {k} |-> IF x = k THEN v ELSE m[x]]
MapDel(m, k) == [x \in DOMAIN m \ {k} |-> m[x]]

\* --------------------------------------------------------- LockManager
\* try_acquire(keys) over the held-key set h: granted iff no key is held.
TryAcquireGranted(keys, h) == keys \cap h = {}
\* The held-key set after a granted try_acquire, and after release(keys).
AcquireKeys(keys, h) == h \cup keys
ReleaseKeys(keys, h) == h \ keys

\* ------------------------------------------------- TaskExecutor::submit
InitWith(G) ==
  /\ ct = [s \in Sub |-> NoContract]
  /\ seen = [s \in Sub |-> 0]
  /\ spc = [s \in Sub |-> "idle"]
  /\ tpc = [s \in Sub |-> "none"]
  /\ tstate = [s \in Sub |-> "None"]
  /\ res = [s \in Sub |-> "none"]
  /\ sent = [s \in Sub |-> "none"]
  /\ wake = [s \in Sub |-> FALSE]
  /\ running = EmptyMap
  /\ queues = EmptyMap
  /\ held = {}
  /\ glimit \in G
  /\ gsem = IF glimit = {} THEN 0 ELSE CHOOSE n \in glimit : TRUE
  /\ tsem = EmptyMap
  /\ cancel = [s \in Sub |-> FALSE]
  /\ tasks = {}
  /\ wpc = [s \in Sub |-> "none"]
  /\ cret = [id |-> 0, ret |-> "none"]
  /\ unseen = [s \in Sub |-> FALSE]
  /\ nwait = [s \in Sub |-> 0]
  /\ accounts = <<>>
  /\ current = {}
  /\ aret = [op |-> "new", name |-> "", idx |-> {}, ret |-> {}]

\* A gate that never reads queueable: every conflicting submission waits.
GateOutcomeAlwaysQueue(c, run) ==
  IF c.rgl /\ c.type \in DOMAIN run THEN "enqueue" ELSE "acquire"

\* The exclusivity gate: what submit does after reading the Running Registry.
GateOutcome(c, run) ==
  IF c.rgl /\ c.type \in DOMAIN run
    THEN IF ~c.queueable THEN "err" ELSE "enqueue"
    ELSE "acquire"

\* A submit that drops the error of try_acquire and goes on.
LocksOutcomeUnchecked(granted, c) ==
  IF c.rgl THEN "insert"
  ELSE IF c.max # {} THEN "typesem"
  ELSE "spawned"

\* The running task the gate saw while holding the read lock (0: none).
FoundRunning(c, run) == IF c.rgl /\ c.type \in DOMAIN run THEN run[c.type] ELSE 0

\* Where submit goes after try_acquire answered.
LocksOutcome(granted, c) ==
  IF ~granted THEN "err"
  ELSE IF c.rgl THEN "insert"
  ELSE IF c.max # {} THEN "typesem"
  ELSE "spawned"

\* Where submit goes after recording the task in the Running Registry.
AfterInsert(c) == IF c.max # {} THEN "typesem" ELSE "spawned"

\* The first suspension point of a spawned body.
\* A body that never takes the type-scoped permit.
AfterGlobalNoType(c) == "setrun"

AfterGlobal(c) == IF c.max # {} THEN "type" ELSE "setrun"
\* A body that never takes the global permit.
FirstBodyPcNoGlobal(c, g) == AfterGlobal(c)

FirstBodyPc(c, g) == IF g # {} THEN "global" ELSE AfterGlobal(c)

\* A submit that spawns the body whatever try_acquire answered.
SpawnAtEager(s, pc) ==
  tpc' = [tpc EXCEPT ![s] = FirstBodyPc(ct[s], glimit)]

\* tokio::spawn at the end of submit: the body exists once submit is there.
SpawnAt(s, pc) ==
  tpc' = IF pc = "spawned" THEN [tpc EXCEPT ![s] = FirstBodyPc(ct[s], glimit)] ELSE tpc

\* A caller calls submit with contract c; the call runs to the read of the
\* Running Registry and decides on it.  TaskIds are minted in call order.
SubmitCall(s, c) ==
  /\ spc[s] = "idle"
  /\ \A r \in Sub : r < s => spc[r] # "idle"
  /\ ct' = [ct EXCEPT ![s] = c]
  /\ seen' = [seen EXCEPT ![s] = FoundRunning(c, running)]
  /\ spc' = [spc EXCEPT ![s] = GateOutcome(c, running)]
  /\ UNCHANGED <<tpc, tstate, res, sent, wake, running, queues, held, glimit, gsem, tsem>>
  /\ UNCHANGED mgrVars
  /\ UNCHANGED ctxVars
  /\ UNCHANGED acctVars

\* queues.entry(task_type).or_default().push(PendingTask)
Enqueue(s) ==
  /\ spc[s] = "enqueue"
  /\ LET T == ct[s].type
         q == IF T \in DOMAIN queues THEN queues[T] ELSE <<>>
     IN queues' = MapPut(queues, T, Append(q, s))
  /\ spc' = [spc EXCEPT ![s] = "wait"]
  /\ UNCHANGED <<ct, seen, tpc, tstate, res, sent, wake, running, held, glimit, gsem, tsem>>
  /\ UNCHANGED mgrVars
  /\ UNCHANGED ctxVars
  /\ UNCHANGED acctVars

\* notify.notified().await returns once notify_one has stored a permit.
Wait(s) ==
  /\ spc[s] = "wait"
  /\ wake[s]
  /\ wake' = [wake EXCEPT ![s] = FALSE]
  /\ spc' = [spc EXCEPT ![s] = "acquire"]
  /\ UNCHANGED <<ct, seen, tpc, tstate, res, sent, running, queues, held, glimit, gsem, tsem>>
  /\ UNCHANGED mgrVars
  /\ UNCHANGED ctxVars
  /\ UNCHANGED acctVars

\* try_acquire over the declared locks; on success the channels, the state
\* cell (Pending) and the handle are created.
Acquire(s) ==
  /\ spc[s] = "acquire"
  /\ LET c == ct[s]
         granted == TryAcquireGranted(c.locks, held)
         pc == LocksOutcome(granted, c)
     IN /\ spc' = [spc EXCEPT ![s] = pc]
        /\ held' = IF pc = "err" THEN held ELSE AcquireKeys(c.locks, held)
        /\ tstate' = IF pc = "err" THEN tstate ELSE [tstate EXCEPT ![s] = "Pending"]
        /\ SpawnAt(s, pc)
  /\ UNCHANGED <<ct, seen, res, sent, wake, running, queues, glimit, gsem, tsem>>
  /\ UNCHANGED mgrVars
  /\ UNCHANGED ctxVars
  /\ UNCHANGED acctVars

\* self.running.write().await.insert(task_type, task_id)
Insert(s) ==
  /\ spc[s] = "insert"
  /\ running' = MapPut(running, ct[s].type, s)
  /\ spc' = [spc EXCEPT ![s] = AfterInsert(ct[s])]
  /\ SpawnAt(s, AfterInsert(ct[s]))
  /\ UNCHANGED <<ct, seen, tstate, res, sent, wake, queues, held, glimit, gsem, tsem>>
  /\ UNCHANGED mgrVars
  /\ UNCHANGED ctxVars
  /\ UNCHANGED acctVars

\* Semaphore::new(n): a pool created with n permits, all free.
NewSemaphore(n) == [cap |-> n, free |-> n]

\* A pool created one permit too large.
TypeSemEntryOffByOne(sems, c) ==
  IF c.type \in DOMAIN sems THEN sems
  ELSE MapPut(sems, c.type, NewSemaphore((CHOOSE n \in c.max : TRUE) + 1))

\* A submit that installs a fresh pool of its own size every time.
TypeSemEntryReplace(sems, c) ==
  MapPut(sems, c.type, NewSemaphore(CHOOSE n \in c.max : TRUE))

\* sems.entry(task_type).or_insert_with(|| Semaphore::new(limit))
TypeSemEntry(sems, c) ==
  IF c.type \in DOMAIN sems THEN sems
  ELSE MapPut(sems, c.type, NewSemaphore(CHOOSE n \in c.max : TRUE))

TypeSem(s) ==
  /\ spc[s] = "typesem"
  /\ tsem' = TypeSemEntry(tsem, ct[s])
  /\ spc' = [spc EXCEPT ![s] = "spawned"]
  /\ SpawnAt(s, "spawned")
  /\ UNCHANGED <<ct, seen, tstate, res, sent, wake, running, queues, held, glimit, gsem>>
  /\ UNCHANGED mgrVars
  /\ UNCHANGED ctxVars
  /\ UNCHANGED acctVars

\* ------------------------------------------------- the spawned task body
\* sem.acquire().await on the global semaphore
AcqGlobal(t) ==
  /\ tpc[t] = "global"
  /\ gsem > 0
  /\ gsem' = gsem - 1
  /\ tpc' = [tpc EXCEPT ![t] = AfterGlobal(ct[t])]
  /\ UNCHANGED <<ct, seen, spc, tstate, res, sent, wake, running, queues, held, glimit, tsem>>
  /\ UNCHANGED mgrVars
  /\ UNCHANGED ctxVars
  /\ UNCHANGED acctVars

\* sem.acquire().await on the type's semaphore
AcqType(t) ==
  /\ tpc[t] = "type"
  /\ tsem[ct[t].type].free > 0
  /\ tsem' = [tsem EXCEPT ![ct[t].type].free = @ - 1]
  /\ tpc' = [tpc EXCEPT ![t] = "setrun"]
  /\ UNCHANGED <<ct, seen, spc, tstate, res, sent, wake, running, queues, held, glimit, gsem>>
  /\ UNCHANGED mgrVars
  /\ UNCHANGED ctxVars
  /\ UNCHANGED acctVars

\* *state.write().await = TaskState::Running
SetRunning(t) ==
  /\ tpc[t] = "setrun"
  /\ tstate' = [tstate EXCEPT ![t] = "Running"]
  /\ tpc' = [tpc EXCEPT ![t] = "exec"]
  /\ UNCHANGED <<ct, seen, spc, res, sent, wake, running, queues, held, glimit, gsem, tsem>>
  /\ UNCHANGED mgrVars
  /\ UNCHANGED ctxVars
  /\ UNCHANGED acctVars

\* task.execute(&ctx).await returns r
Execute(t, r) ==
  /\ tpc[t] = "exec"
  /\ res' = [res EXCEPT ![t] = r]
  /\ tpc' = [tpc EXCEPT ![t] = "release"]
  /\ UNCHANGED <<ct, seen, spc, tstate, sent, wake, running, queues, held, glimit, gsem, tsem>>
  /\ UNCHANGED mgrVars
  /\ UNCHANGED ctxVars
  /\ UNCHANGED acctVars

\* A body that goes from the release straight to the terminal write.
AfterReleaseSkipUnreg(c) == "term"

\* Where the body goes after releasing its locks.
AfterRelease(c) == IF c.rgl THEN "unreg" ELSE "term"

\* lock_manager.release(&task.locks()).await
\* A body that gives its keys back only when execute succeeded.
ReleaseOnlyOnOk(t) ==
  /\ tpc[t] = "release"
  /\ held' = IF res[t] = "Ok" THEN ReleaseKeys(ct[t].locks, held) ELSE held
  /\ tpc' = [tpc EXCEPT ![t] = AfterRelease(ct[t])]
  /\ UNCHANGED <<ct, seen, spc, tstate, res, sent, wake, running, queues, glimit, gsem, tsem>>
  /\ UNCHANGED mgrVars
  /\ UNCHANGED ctxVars
  /\ UNCHANGED acctVars

Release(t) ==
  /\ tpc[t] = "release"
  /\ held' = ReleaseKeys(ct[t].locks, held)
  /\ tpc' = [tpc EXCEPT ![t] = AfterRelease(ct[t])]
  /\ UNCHANGED <<ct, seen, spc, tstate, res, sent, wake, running, queues, glimit, gsem, tsem>>
  /\ UNCHANGED mgrVars
  /\ UNCHANGED ctxVars
  /\ UNCHANGED acctVars

\* running.write().await.remove(task_type)
Unregister(t) ==
  /\ tpc[t] = "unreg"
  /\ running' = MapDel(running, ct[t].type)
  /\ tpc' = [tpc EXCEPT ![t] = "wake"]
  /\ UNCHANGED <<ct, seen, spc, tstate, res, sent, wake, queues, held, glimit, gsem, tsem>>
  /\ UNCHANGED mgrVars
  /\ UNCHANGED ctxVars
  /\ UNCHANGED acctVars

\* queue.pop(): the waiter Vec::pop returns (0: none), and the queue it leaves.
\* A wake that takes the oldest waiter instead of the newest.
PopWaiterOldest(q) == IF q = <<>> THEN 0 ELSE q[1]

PopWaiter(q) == IF q = <<>> THEN 0 ELSE q[Len(q)]
PopRest(q) == IF q = <<>> THEN q ELSE SubSeq(q, 1, Len(q) - 1)

\* The wait queues after the wake step of a task of type T.
QueuesAfterWake(qs, T) ==
  IF T \notin DOMAIN qs THEN qs
  ELSE IF qs[T] = <<>> THEN MapDel(qs, T)
  ELSE [qs EXCEPT ![T] = PopRest(qs[T])]

\* let mut q = queues.write().await; pop a waiter and notify_one it, or
\* remove the type's empty queue.
WakeWaiter(t) ==
  /\ tpc[t] = "wake"
  /\ LET T == ct[t].type
         w == IF T \in DOMAIN queues THEN PopWaiter(queues[T]) ELSE 0
     IN /\ queues' = QueuesAfterWake(queues, T)
        /\ wake' = IF w = 0 THEN wake ELSE [wake EXCEPT ![w] = TRUE]
  /\ tpc' = [tpc EXCEPT ![t] = "term"]
  /\ UNCHANGED <<ct, seen, spc, tstate, res, sent, running, held, glimit, gsem, tsem>>
  /\ UNCHANGED mgrVars
  /\ UNCHANGED ctxVars
  /\ UNCHANGED acctVars

\* A body whose outcome is never looked at: every task ends Completed.
TerminalStateAlwaysCompleted(r) == "Completed"

\* The terminal state for a body result.
TerminalState(r) == IF r = "Ok" THEN "Completed" ELSE "Failed"

\* *state.write().await = Completed | Failed
SetTerminal(t) ==
  /\ tpc[t] = "term"
  /\ tstate' = [tstate EXCEPT ![t] = TerminalState(res[t])]
  /\ tpc' = [tpc EXCEPT ![t] = "send"]
  /\ UNCHANGED <<ct, seen, spc, res, sent, wake, running, queues, held, glimit, gsem, tsem>>
  /\ UNCHANGED mgrVars
  /\ UNCHANGED ctxVars
  /\ UNCHANGED acctVars

\* result_tx.send(result)
SendResult(t) ==
  /\ tpc[t] = "send"
  /\ sent' = [sent EXCEPT ![t] = res[t]]
  /\ tpc' = [tpc EXCEPT ![t] = "notify"]
  /\ UNCHANGED <<ct, seen, spc, tstate, res, wake, running, queues, held, glimit, gsem, tsem>>
  /\ UNCHANGED mgrVars
  /\ UNCHANGED ctxVars
  /\ UNCHANGED acctVars

\* Notify::notify_waiters wakes the waiters registered now and stores nothing.
NotifyWaiters(w) == IF w = "waiting" THEN "woken" ELSE w

\* completion.notify_waiters()
NotifyCompletion(t) ==
  /\ tpc[t] = "notify"
  /\ wpc' = [wpc EXCEPT ![t] = NotifyWaiters(wpc[t])]
  /\ tpc' = [tpc EXCEPT ![t] = "exit"]
  /\ UNCHANGED <<ct, seen, spc, tstate, res, sent, wake, running, queues, held, glimit, gsem, tsem>>
  /\ UNCHANGED <<cancel, tasks, cret>>
  /\ UNCHANGED ctxVars
  /\ UNCHANGED acctVars

\* The async block ends: ctx (the watch receiver) and both permits drop.
ExitBody(t) ==
  /\ tpc[t] = "exit"
  /\ gsem' = IF glimit # {} THEN gsem + 1 ELSE gsem
  /\ tsem' = IF ct[t].max # {} THEN [tsem EXCEPT ![ct[t].type].free = @ + 1] ELSE tsem
  /\ tpc' = [tpc EXCEPT ![t] = "done"]
  /\ UNCHANGED <<ct, seen, spc, tstate, res, sent, wake, running, queues, held, glimit>>
  /\ UNCHANGED mgrVars
  /\ UNCHANGED ctxVars
  /\ UNCHANGED acctVars

\* ----------------------------------------------------------- TaskManager
\* TaskManager::new: TaskExecutor::new(lock_manager, Some(5))
ManagerCeiling == 5

\* The task's watch channel has a receiver: cancel_rx lives in the body
\* (as ctx) from the channel's creation to the end of the async block.
ReceiverAlive(t) == tstate[t] # "None" /\ tpc[t] # "done"

\* track_task: self.tasks.write().await.insert(task_id, info)
Track(s) ==
  /\ spc[s] = "spawned"
  /\ tasks' = tasks \cup {s}
  /\ spc' = [spc EXCEPT ![s] = "tracked"]
  /\ UNCHANGED <<ct, seen, tpc, tstate, res, sent, wake, running, queues, held, glimit, gsem, tsem>>
  /\ UNCHANGED <<cancel, wpc, cret>>
  /\ UNCHANGED ctxVars
  /\ UNCHANGED acctVars

\* track_task spawns the cleanup watcher and TaskManager::submit returns.
SpawnWatcher(s) ==
  /\ spc[s] = "tracked"
  /\ wpc' = [wpc EXCEPT ![s] = "start"]
  /\ spc' = [spc EXCEPT ![s] = "ok"]
  /\ UNCHANGED <<ct, seen, tpc, tstate, res, sent, wake, running, queues, held, glimit, gsem, tsem>>
  /\ UNCHANGED <<cancel, tasks, cret>>
  /\ UNCHANGED ctxVars
  /\ UNCHANGED acctVars

\* The watcher's first poll: completion.notified() registers it as a waiter.
WatcherWait(t) ==
  /\ wpc[t] = "start"
  /\ wpc' = [wpc EXCEPT ![t] = "waiting"]
  /\ UNCHANGED execVars
  /\ UNCHANGED <<cancel, tasks, cret>>
  /\ UNCHANGED ctxVars
  /\ UNCHANGED acctVars

\* Woken, the watcher removes the entry: tasks.write().await.remove(&task_id)
WatcherRemove(t) ==
  /\ wpc[t] = "woken"
  /\ tasks' = tasks \ {t}
  /\ wpc' = [wpc EXCEPT ![t] = "done"]
  /\ UNCHANGED execVars
  /\ UNCHANGED <<cancel, cret>>
  /\ UNCHANGED ctxVars
  /\ UNCHANGED acctVars

\* A cancel that sends on any live channel without looking the id up.
CancelResultNoLookup(id, tracked, alive) == IF alive THEN "Ok" ELSE "InvalidState"

\* What TaskManager::cancel(id) returns: InvalidState when id is not tracked
\* or watch::Sender::send fails (no receiver is left), Ok otherwise.
CancelResult(id, tracked, alive) ==
  IF id \notin tracked THEN "InvalidState"
  ELSE IF ~alive THEN "InvalidState"
  ELSE "Ok"

\* TaskManager::cancel(id), under the read lock of tasks.
\* A cancel that flips the flag: a second cancel takes the request back.
CancelToggle(id) ==
  /\ LET r == CancelResult(id, tasks, ReceiverAlive(id))
     IN /\ cret' = [id |-> id, ret |-> r]
        /\ cancel' = IF r = "Ok" THEN [cancel EXCEPT ![id] = ~@] ELSE cancel
        /\ unseen' = IF r = "Ok" THEN [unseen EXCEPT ![id] = TRUE] ELSE unseen
  /\ UNCHANGED execVars
  /\ UNCHANGED <<tasks, wpc, nwait>>
  /\ UNCHANGED acctVars

\* A cancel that takes the task down itself instead of raising the flag.
CancelForcing(id) ==
  /\ LET r == CancelResult(id, tasks, ReceiverAlive(id))
     IN /\ cret' = [id |-> id, ret |-> r]
        /\ cancel' = IF r = "Ok" THEN [cancel EXCEPT ![id] = TRUE] ELSE cancel
        /\ unseen' = IF r = "Ok" THEN [unseen EXCEPT ![id] = TRUE] ELSE unseen
        /\ tstate' = IF r = "Ok" THEN [tstate EXCEPT ![id] = "Failed"] ELSE tstate
  /\ UNCHANGED <<ct, seen, spc, tpc, res, sent, wake, running, queues, held, glimit, gsem, tsem>>
  /\ UNCHANGED <<tasks, wpc, nwait>>
  /\ UNCHANGED acctVars

Cancel(id) ==
  /\ LET r == CancelResult(id, tasks, ReceiverAlive(id))
     IN /\ cret' = [id |-> id, ret |-> r]
        /\ cancel' = IF r = "Ok" THEN [cancel EXCEPT ![id] = TRUE] ELSE cancel
        /\ unseen' = IF r = "Ok" THEN [unseen EXCEPT ![id] = TRUE] ELSE unseen
  /\ UNCHANGED execVars
  /\ UNCHANGED <<tasks, wpc, nwait>>
  /\ UNCHANGED acctVars

\* ----------------------------------------------------------- TaskContext
\* How many times a body calls ctx.cancelled() before it returns.
MaxAwait == 2

\* A sender of the task's watch channel is alive: the handle inside
\* TaskManager::submit, then the TaskInfo in TaskManager.tasks.  The handle
\* the caller received may be dropped at any time and is not counted.
SenderAlive(t) == spc[t] \in {"spawned", "tracked"} \/ t \in tasks

\* watch::Receiver::changed() is ready: Ok when a send has not been seen
\* yet, Err when every sender is gone; cancelled() discards which.
ChangedReady(u, alive) == u \/ ~alive

\* TaskContext::is_cancelled(): *self.cancelled.borrow()
IsCancelled(t) == cancel[t]

\* The body calls ctx.cancelled().await and suspends in changed().
AwaitCancelled(t) ==
  /\ tpc[t] = "exec"
  /\ nwait[t] < MaxAwait
  /\ tpc' = [tpc EXCEPT ![t] = "await"]
  /\ UNCHANGED <<ct, seen, spc, tstate, res, sent, wake, running, queues, held, glimit, gsem, tsem>>
  /\ UNCHANGED mgrVars
  /\ UNCHANGED ctxVars
  /\ UNCHANGED acctVars

\* changed() is ready: the receiver marks the version seen and
\* ctx.cancelled() returns to the body.
CancelledReturns(t) ==
  /\ tpc[t] = "await"
  /\ ChangedReady(unseen[t], SenderAlive(t))
  /\ unseen' = [unseen EXCEPT ![t] = FALSE]
  /\ nwait' = [nwait EXCEPT ![t] = @ + 1]
  /\ tpc' = [tpc EXCEPT ![t] = "exec"]
  /\ UNCHANGED <<ct, seen, spc, tstate, res, sent, wake, running, queues, held, glimit, gsem, tsem>>
  /\ UNCHANGED mgrVars
  /\ UNCHANGED acctVars

\* The steps of a body that waits on its Cancellation Context.
ContextSteps == \E t \in Sub : AwaitCancelled(t) \/ CancelledReturns(t)

\* -------------------------------------------------------- AccountManager
\* How many accounts the store is filled with.
MaxAccounts == 3
Names == {"alex", "steve"}
\* Option<usize> over the indices a caller may pass, in and out of range.
NoIndex == {}
Indices == 0..MaxAccounts
OptIndex == {NoIndex} \cup {{i} : i \in Indices}

\* Account::offline(username): the uuid is a function of the username.
OfflineAccount(u) == [type |-> "Offline", username |-> u]

\* Vec::get(idx) with a 0-based index: Some(account) or None.
VecGet(v, idx) == IF idx < Len(v) THEN {v[idx + 1]} ELSE {}
\* Vec::remove(idx) with a 0-based index in range.
VecRemove(v, idx) ==
  [i \in 1..(Len(v) - 1) |-> IF i <= idx THEN v[i] ELSE v[i + 1]]

\* AccountManager::current(): the account the selection designates.
CurrentAccount(v, cur) == UNION {VecGet(v, c) : c \in cur}

\* A remove that clears a removed selection but never shifts one.
CurrentAfterRemoveNoShift(cur, idx) == IF cur = {idx} THEN {} ELSE cur

\* The selection after remove(idx) took an element out.
CurrentAfterRemove(cur, idx) ==
  IF cur = {idx} THEN {}
  ELSE {IF c > idx THEN c - 1 ELSE c : c \in cur}

\* AccountManager::add_offline(username)
AddOffline(u) ==
  /\ Len(accounts) < MaxAccounts
  /\ LET idx == Len(accounts)
     IN /\ accounts' = Append(accounts, OfflineAccount(u))
        /\ current' = {idx}
        /\ aret' = [op |-> "add_offline", name |-> u, idx |-> {}, ret |-> {idx}]
  /\ UNCHANGED execVars
  /\ UNCHANGED mgrVars
  /\ UNCHANGED ctxVars

\* AccountManager::select(idx)
Select(o) ==
  /\ current' = o
  /\ aret' = [op |-> "select", name |-> "", idx |-> o, ret |-> {}]
  /\ UNCHANGED accounts
  /\ UNCHANGED execVars
  /\ UNCHANGED mgrVars
  /\ UNCHANGED ctxVars

\* AccountManager::remove(idx)
Remove(idx) ==
  /\ IF idx < Len(accounts)
       THEN /\ accounts' = VecRemove(accounts, idx)
            /\ current' = CurrentAfterRemove(current, idx)
       ELSE UNCHANGED <<accounts, current>>
  /\ aret' = [op |-> "remove", name |-> "", idx |-> {idx}, ret |-> {}]
  /\ UNCHANGED execVars
  /\ UNCHANGED mgrVars
  /\ UNCHANGED ctxVars

\* ------------------------------------------------------- specifications
\* The first n submit calls, each with a contract of C.
Calls(n, C) == \E s \in 1..n, c \in C : SubmitCall(s, c)

\* The steps every admitted task takes.
CoreSteps ==
  \/ \E s \in Sub : Acquire(s)
  \/ \E t \in Sub : SetRunning(t)
  \/ \E t \in Sub, r \in {"Ok", "Err"} : Execute(t, r)
  \/ \E t \in Sub : Release(t)
  \/ \E t \in Sub : SetTerminal(t) \/ SendResult(t) \/ NotifyCompletion(t) \/ ExitBody(t)

\* The steps of the type-exclusivity gate (requires_global_lock).
GateSteps ==
  \/ \E s \in Sub : Enqueue(s) \/ Wait(s) \/ Insert(s)
  \/ \E t \in Sub : Unregister(t) \/ WakeWaiter(t)

\* The step that exists only with a global ceiling.
GlobalPermitSteps == \E t \in Sub : AcqGlobal(t)

\* The steps that exist only for contracts declaring max_concurrent.
TypePermitSteps ==
  \/ \E s \in Sub : TypeSem(s)
  \/ \E t \in Sub : AcqType(t)

\* The steps of TaskManager.
ManagerSteps ==
  \/ \E s \in Sub : Track(s) \/ SpawnWatcher(s)
  \/ \E t \in Sub : WatcherWait(t) \/ WatcherRemove(t)
  \/ \E id \in Sub : Cancel(id)

\* queueable is read only when requires_global_lock holds; elsewhere the
\* trait's default (true) stands for both answers.
Effective == {c \in Contracts : ~c.rgl => c.queueable}

\* Type exclusivity: contracts that require the global lock, no permit pool.
ExclContracts == {c \in Effective : c.rgl /\ c.max = {} /\ c.locks \subseteq {"/cluster/foo"}}
ExclInit == InitWith({{}})
ExclNext == Calls(NSub, ExclContracts) \/ CoreSteps \/ GateSteps
ExclSpec == ExclInit /\ [][ExclNext]_vars

\* Resource locks: with and without the global lock, no permit pool.
LockContracts == {c \in Effective : c.queueable /\ c.max = {} /\ c.locks # {}}
LockNext == Calls(NSub, LockContracts) \/ CoreSteps \/ GateSteps
LockSpec == ExclInit /\ [][LockNext]_vars

\* Permit pools: a global ceiling and max_concurrent, no resource locks.
PermitContracts == {c \in Effective : c.queueable /\ c.locks = {}}
PermitInit == InitWith(Limits \ {{}})
PermitNext ==
  \/ Calls(NSub, PermitContracts)
  \/ CoreSteps \/ GateSteps \/ GlobalPermitSteps \/ TypePermitSteps
PermitSpec == PermitInit /\ [][PermitNext]_vars

\* TaskManager over the executor: tracking, cleanup and cancel.  The
\* manager builds its executor with a global ceiling of ManagerCeiling.
MgrContracts == {c \in Effective : c.max = {} /\ c.locks = {}}
Init == InitWith({{ManagerCeiling}})
Next ==
  \/ Calls(NSub - 1, MgrContracts)
  \/ CoreSteps \/ GateSteps \/ GlobalPermitSteps \/ ManagerSteps
Spec == Init /\ [][Next]_vars

\* Scheduling: the runtime keeps polling every submit call, every spawned
\* body (whose execute is assumed to return) and every watcher.
ProcStep(s) ==
  \/ Enqueue(s) \/ Wait(s) \/ Acquire(s) \/ Insert(s) \/ AcqGlobal(s)
  \/ SetRunning(s) \/ (\E r \in {"Ok", "Err"} : Execute(s, r)) \/ Release(s)
  \/ Unregister(s) \/ WakeWaiter(s)
  \/ SetTerminal(s) \/ SendResult(s) \/ NotifyCompletion(s) \/ ExitBody(s)

ManagerStep(s) == Track(s) \/ SpawnWatcher(s) \/ WatcherWait(s) \/ WatcherRemove(s)

FairExclNext == Calls(NSub - 1, ExclContracts) \/ CoreSteps \/ GateSteps
FairExclSpec ==
  ExclInit /\ [][FairExclNext]_vars /\ \A s \in Sub : WF_vars(ProcStep(s))

FairSpec ==
  Spec /\ \A s \in Sub : WF_vars(ProcStep(s)) /\ WF_vars(ManagerStep(s))

\* All gates at once: the global lock, one resource key, a global ceiling
\* and max_concurrent.
GateContracts ==
  {c \in Effective : c.rgl /\ c.queueable /\ c.locks = {"/cluster/foo"}}
GateNext ==
  \/ Calls(NSub, GateContracts)
  \/ CoreSteps \/ GateSteps \/ GlobalPermitSteps \/ TypePermitSteps
GateSpec == PermitInit /\ [][GateNext]_vars

\* TaskManager with bodies that wait on ctx.cancelled(): one plain contract.
CtxContracts == {c \in MgrContracts : ~c.rgl}
CtxNext ==
  \/ Calls(NSub - 1, CtxContracts)
  \/ CoreSteps \/ GlobalPermitSteps \/ ManagerSteps \/ ContextSteps
CtxSpec == Init /\ [][CtxNext]_vars
FairCtxSpec ==
  CtxSpec /\ \A s \in Sub :
    WF_vars(ProcStep(s)) /\ WF_vars(ManagerStep(s)) /\ WF_vars(CancelledReturns(s))

\* The account store on its own.
AccountNext ==
  \/ \E u \in Names : AddOffline(u)
  \/ \E o \in OptIndex : Select(o)
  \/ \E idx \in Indices : Remove(idx)
AccountSpec == ExclInit /\ [][AccountNext]_vars

\* ------------------------------------------------------------ properties
\* try_acquire was granted to call t: the handle and its channels exist.
Admitted(t) == tstate[t] # "None"
\* The body of t has not yet executed lock_manager.release.
BeforeRelease(t) == tpc[t] \in {"none", "global", "type", "setrun", "exec", "release"}
\* t holds the keys it declared.
HoldsLocks(t) == Admitted(t) /\ BeforeRelease(t)
IsRunning(t) == tstate[t] = "Running"
IsTerminal(t) == tstate[t] \in {"Completed", "Failed"}

\* C1: no two distinct tasks of one type that requires the global lock are
\* Running at once.  (Checked under ExclSpec, where every contract requires
\* the global lock.)
C1_TypeExclusive ==
  \A a, b \in Sub :
    (a # b /\ ct[a].rgl /\ ct[b].rgl /\ ct[a].type = ct[b].type)
      => ~(IsRunning(a) /\ IsRunning(b))

\* C2: every key is held by at most one admitted, not yet released task, and
\* the keys of such a task stay in the LockManager's held set.
C2_ResourceLockExclusive ==
  /\ \A a, b \in Sub :
       (HoldsLocks(a) /\ HoldsLocks(b) /\ ct[a].locks \cap ct[b].locks # {}) => a = b
  /\ \A t \in Sub : HoldsLocks(t) => ct[t].locks \subseteq held

\* C2 witness: a task runs holding a key while another submit that declared
\* the same key was refused.
C2_Witness ==
  \E a, b \in Sub :
    /\ a # b /\ IsRunning(a) /\ HoldsLocks(a)
    /\ ct[a].locks \cap ct[b].locks # {}
    /\ spc[b] = "err"

\* The contracts handed to submit so far.
Called == {s \in Sub : spc[s] # "idle"}
RunningOf(T) == {t \in Sub : ct[t].type = T /\ IsRunning(t)}
\* The async block of t has ended.
Finished(t) == tpc[t] = "done"

\* C3: when every contract of type T declares max_concurrent = n, at most n
\* tasks of type T are Running.
C3_TypeCeiling ==
  \A T \in Types, n \in 1..MaxLimit :
    (\A s \in Called : ct[s].type = T => ct[s].max = {n})
      => Cardinality(RunningOf(T)) <= n

\* C3 witness: all contracts of a type declare n, n of its tasks are Running
\* and one more is parked on the type's semaphore.
C3_Witness ==
  \E T \in Types, n \in 1..MaxLimit :
    /\ \A s \in Called : ct[s].type = T => ct[s].max = {n}
    /\ Cardinality(RunningOf(T)) = n
    /\ \E t \in Sub : ct[t].type = T /\ tpc[t] = "type"

\* C4: with a global ceiling N at most N tasks are Running, and once every
\* admitted task has finished, all N global permits and every permit of
\* every type's pool are free again.
C4_GlobalCeiling ==
  \A N \in glimit :
    /\ Cardinality({t \in Sub : IsRunning(t)}) <= N
    /\ (\A t \in Sub : Admitted(t) => Finished(t))
         => /\ gsem = N
            /\ \A T \in DOMAIN tsem : tsem[T].free = tsem[T].cap

\* C4 witness: N tasks are Running, one more is parked on the global
\* semaphore, and a task that failed has already finished.
C4_Witness ==
  \E N \in glimit :
    /\ Cardinality({t \in Sub : IsRunning(t)}) = N
    /\ \E t \in Sub : tpc[t] = "global"
    /\ \E t \in Sub : Finished(t) /\ tstate[t] = "Failed" /\ ct[t].max # {}

\* C5: a submit of a non-queueable contract that requires the global lock,
\* made while the Running Registry holds its type, returns LockConflict in
\* that step; no body is spawned, no handle and no lock is taken, and the
\* Running Registry and the wait queues are unchanged.
C5_RejectNonQueueable ==
  [][\A s \in Sub :
       (/\ spc[s] = "idle" /\ spc'[s] # "idle"
        /\ ct'[s].rgl /\ ~ct'[s].queueable /\ ct'[s].type \in DOMAIN running)
         => /\ SubmitCall(s, ct'[s])
            /\ spc'[s] = "err"
            /\ tpc'[s] = "none" /\ tstate'[s] = "None"
            /\ held' = held /\ running' = running /\ queues' = queues]_vars

\* C5 witness: a non-queueable submission was refused at the gate (it
\* declares no locks) while a task of its type is Running.
C5_Witness ==
  \E s, t \in Sub :
    /\ s # t /\ spc[s] = "err" /\ ~ct[s].queueable /\ ct[s].locks = {}
    /\ ct[t].type = ct[s].type /\ IsRunning(t) /\ seen[s] = t

\* execute has returned in the body of t.
BodyReturned(t) ==
  tpc[t] \in {"release", "unreg", "wake", "term", "send", "notify", "exit", "done"}

\* C6: a waiter leaves the gate only after the running instance it found
\* has completed its body, and then the Running Registry no longer holds
\* that instance's entry.
C6_WaiterProceedsAfterCompletion ==
  [][\A s \in Sub :
       Wait(s) => /\ BodyReturned(seen[s])
                  /\ \A T \in DOMAIN running : running[T] # seen[s]]_vars

\* submit has returned to its caller.
Returned(s) == spc[s] \in {"spawned", "tracked", "ok", "err"}

\* C7: a submission suspended at the gate eventually returns from submit.
C7_QueuedSubmitReturns ==
  \A s \in Sub : (spc[s] = "wait") ~> Returned(s)

\* C8: once a task is terminal, its entry leaves the manager's registry.
C8_NoRegistryLeak ==
  \A t \in Sub : IsTerminal(t) ~> (t \notin tasks)

\* C9: cancel(id) of an untracked id returns InvalidState and changes
\* nothing; cancel(id) of a tracked task that is not terminal returns Ok and
\* raises its flag; a raised flag is never lowered.
C9_CancelContract ==
  [][/\ \A id \in Sub :
          Cancel(id) =>
            /\ id \notin tasks
                 => cret'.ret = "InvalidState" /\ cancel' = cancel /\ UNCHANGED execVars
            /\ (id \in tasks /\ ~IsTerminal(id))
                 => cret'.ret = "Ok" /\ cancel'[id]
     /\ \A t \in Sub : cancel[t] => cancel'[t]]_vars

\* C9 witness: the last cancel, of a tracked Running task, returned Ok and
\* the task's flag is up.
C9_Witness ==
  \E id \in Sub :
    /\ cret = [id |-> id, ret |-> "Ok"]
    /\ id \in tasks /\ IsRunning(id) /\ cancel[id]

\* C10: cancel(id) of a task whose state is Completed or Failed returns
\* InvalidState.
C10_CancelTerminalInvalid ==
  [][\A id \in Sub :
       (Cancel(id) /\ IsTerminal(id)) => cret'.ret = "InvalidState"]_vars

\* The moves of a task's state cell.
StateMoves ==
  {<<"None", "Pending">>, <<"Pending", "Running">>,
   <<"Running", "Completed">>, <<"Running", "Failed">>}

\* C11: a task's state starts Pending, moves only Pending -> Running ->
\* Completed | Failed, ends Completed exactly when the body returned Ok and
\* Failed exactly when it returned Err, and never leaves a terminal state.
C11_StateMachine ==
  [][\A t \in Sub :
       tstate'[t] # tstate[t]
         => /\ <<tstate[t], tstate'[t]>> \in StateMoves
            /\ tstate'[t] = "Completed" <=> (tstate[t] = "Running" /\ res[t] = "Ok")
            /\ tstate'[t] = "Failed" <=> (tstate[t] = "Running" /\ res[t] = "Err")]_vars

\* C11 witness: one task has ended Failed on an Err body, another Completed
\* on an Ok body.
C11_Witness ==
  \E a, b \in Sub :
    /\ tstate[a] = "Failed" /\ res[a] = "Err"
    /\ tstate[b] = "Completed" /\ res[b] = "Ok"

\* Submission s takes the try_acquire step and the lock manager refuses.
AcquireRefused(s) ==
  /\ spc[s] = "acquire"
  /\ spc'[s] # "acquire"
  /\ ~TryAcquireGranted(ct[s].locks, held)

\* C12: when try_acquire over the declared locks fails, submit returns
\* LockConflict, no body is spawned and no state cell is created, the set of
\* held keys is unchanged and the Running Registry is unchanged, for a
\* submission that never waited and for one woken from the wait queue alike.
C12_RefusedAcquireLeavesNothing ==
  [][\A s \in Sub :
       AcquireRefused(s)
         => /\ spc'[s] = "err"
            /\ tpc'[s] = "none"
            /\ tstate'[s] = "None"
            /\ held' = held
            /\ running' = running
            /\ queues' = queues]_vars

\* C12 witness: a submission that had been queued behind a running task and
\* was woken is refused at try_acquire, because a third submission took the
\* key in between.
C12_Witness ==
  \E a \in Sub :
    /\ spc[a] = "err" /\ seen[a] # 0 /\ ct[a].queueable /\ ct[a].locks # {}
    /\ \E b \in Sub \ {a} : HoldsLocks(b) /\ ct[b].locks = ct[a].locks

\* Submission s takes the try_acquire step; task t takes the release step.
AcquireStep(s) == spc[s] = "acquire" /\ spc'[s] # "acquire"
ReleaseStep(t) == tpc[t] = "release" /\ tpc'[t] # "release"

\* C13: try_acquire over a batch of keys succeeds exactly when none of them
\* is held and then holds all of them; when it fails the held set is
\* unchanged and submit ends in LockConflict; release takes exactly the
\* given keys out of the held set and touches no other key.
C13_BatchAllOrNothing ==
  [][/\ \A s \in Sub :
          AcquireStep(s)
            => /\ spc'[s] # "err" <=> ct[s].locks \cap held = {}
               /\ spc'[s] # "err" => held' = held \cup ct[s].locks
               /\ spc'[s] = "err" => held' = held
     /\ \A t \in Sub :
          ReleaseStep(t) => held' = held \ ct[t].locks]_vars

\* C13 witness: a batch of both keys was refused while only one of them was
\* held, and the other key is still free.
C13_Witness ==
  \E s, t \in Sub :
    /\ spc[s] = "err" /\ ct[s].locks = Keys
    /\ HoldsLocks(t) /\ ct[t].locks = {"/cluster/foo"}
    /\ held = {"/cluster/foo"}

\* A terminal task holds none of its keys (a key of its that is held is held
\* by another task) and is not the entry of its type's slot.
TerminalHoldsNothing ==
  \A t \in Sub :
    IsTerminal(t)
      => /\ \A K \in ct[t].locks :
              K \in held => \E u \in Sub \ {t} : HoldsLocks(u) /\ K \in ct[u].locks
         /\ ct[t].rgl => \A T \in DOMAIN running : running[T] # t

\* C14: a task that reached Completed or Failed holds none of the keys it
\* acquired and no longer occupies its type's slot; a submission whose keys
\* overlap those of a task still holding them is rejected with LockConflict,
\* and one whose keys overlap only tasks that have finished is admitted.
C14_FailureIsolation ==
  [][/\ TerminalHoldsNothing'
     /\ \A s \in Sub :
          AcquireStep(s)
            => /\ (\E t \in Sub \ {s} :
                     HoldsLocks(t) /\ ct[t].locks \cap ct[s].locks # {})
                  => spc'[s] = "err"
               /\ (\A t \in Sub \ {s} :
                     ct[t].locks \cap ct[s].locks # {}
                       => ~Admitted(t) \/ IsTerminal(t))
                  => spc'[s] # "err"]_vars

\* C14 witness: a task locking "/cluster/foo" ended Failed; a second
\* submission with the same key was rejected, and a third one with the same
\* key holds it while the first is terminal.
C14_Witness ==
  \E a, b, c \in Sub :
    /\ tstate[a] = "Failed" /\ ct[a].locks = {"/cluster/foo"}
    /\ spc[b] = "err" /\ ct[b] = ct[a] /\ b > a
    /\ HoldsLocks(c) /\ ct[c] = ct[a] /\ c > b

\* Steps of the queue protocol, told by the program counters they move.
EnqueueStep(s) == spc[s] = "enqueue" /\ spc'[s] # "enqueue"
UnregisterStep(t) == tpc[t] = "unreg" /\ tpc'[t] # "unreg"
WakeStep(t) == tpc[t] = "wake" /\ tpc'[t] # "wake"

\* C15: a task that required the global lock, once its body is over, first
\* removes its type's Running Registry entry and then, in a later step,
\* wakes exactly one waiter of its type when one is queued, the one queued
\* last; with no waiter it wakes nobody and drops the type's empty queue.
\* Queues grow at the tail, and nothing else ever wakes a waiter.
C15_WakePolicy ==
  [][/\ \A s \in Sub :
          EnqueueStep(s)
            => LET T == ct[s].type
               IN /\ T \in DOMAIN queues'
                  /\ queues'[T] =
                       Append(IF T \in DOMAIN queues THEN queues[T] ELSE <<>>, s)
     /\ \A t \in Sub :
          UnregisterStep(t)
            => /\ ct[t].rgl
               /\ ct[t].type \notin DOMAIN running'
               /\ tpc'[t] = "wake"
               /\ wake' = wake /\ queues' = queues
     /\ \A t \in Sub :
          WakeStep(t)
            => LET T == ct[t].type
               IN /\ ct[t].rgl
                  /\ running' = running
                  /\ IF T \in DOMAIN queues /\ queues[T] # <<>>
                       THEN LET q == queues[T]
                                w == q[Len(q)]
                            IN /\ ~wake[w] /\ spc[w] = "wait"
                               /\ wake' = [wake EXCEPT ![w] = TRUE]
                               /\ queues' = [queues EXCEPT ![T] = SubSeq(q, 1, Len(q) - 1)]
                       ELSE /\ wake' = wake
                            /\ T \notin DOMAIN queues'
                            /\ \A U \in DOMAIN queues \ {T} :
                                 U \in DOMAIN queues' /\ queues'[U] = queues[U]
     /\ \A w \in Sub :
          (~wake[w] /\ wake'[w]) => \E t \in Sub : WakeStep(t)]_vars

\* C15 witness: of two queued waiters the one queued last has been woken and
\* the one queued first is still in the queue.
C15_Witness ==
  \E T \in Types, b, c \in Sub :
    /\ b # c
    /\ T \in DOMAIN queues /\ queues[T] = <<b>>
    /\ spc[b] = "wait" /\ ~wake[b]
    /\ spc[c] = "wait" /\ wake[c]

\* C16: TaskManager::cancel changes nothing but the task's cancellation
\* trigger: task states, held keys, permits, the Running Registry, the wait
\* queues and the manager's table are as before; and a task whose body never
\* reads its context goes on although cancelled: its next step stays enabled
\* until it is done, and its terminal state is the one its body's result
\* alone decides.
C16_CancelCooperative ==
  /\ [][\A id \in Sub :
          Cancel(id)
            => /\ UNCHANGED execVars
               /\ UNCHANGED <<tasks, wpc, nwait>>
               /\ \A t \in Sub \ {id} : cancel'[t] = cancel[t] /\ unseen'[t] = unseen[t]]_vars
  /\ [](\A t \in Sub :
          /\ IsTerminal(t) => tstate[t] = TerminalState(res[t])
          /\ (Admitted(t) /\ cancel[t] /\ tpc[t] # "done") => ENABLED ProcStep(t))

\* C16 witness: a task cancelled while Running ended Completed on an Ok
\* body, and another one cancelled ended Failed on an Err body.
C16_Witness ==
  \E a, b \in Sub :
    /\ cancel[a] /\ tstate[a] = "Completed" /\ res[a] = "Ok"
    /\ cancel[b] /\ tstate[b] = "Failed" /\ res[b] = "Err"

\* C17: the cancellation flag is a level: it is false when the channel is
\* created, no step lowers it, and every cancel that returns Ok, a repeated
\* one or one issued while the task is still Pending included, leaves
\* is_cancelled() true from then on, whatever the body's receiver has seen.
C17_CancelLevel ==
  [][/\ \A s \in Sub : (AcquireStep(s) /\ spc'[s] # "err") => ~IsCancelled(s)'
     /\ \A t \in Sub : IsCancelled(t) => IsCancelled(t)'
     /\ \A id \in Sub :
          (Cancel(id) /\ cret'.ret = "Ok") => IsCancelled(id)']_vars

\* C17 witness: one task was cancelled while Pending in front of its permit,
\* and another, cancelled twice over, has had ctx.cancelled() return, its
\* receiver has seen the send, and its flag is still up.
C17_Witness ==
  \E a, b \in Sub :
    /\ cret = [id |-> a, ret |-> "Ok"]
    /\ tstate[a] = "Pending" /\ tpc[a] = "global" /\ IsCancelled(a)
    /\ IsRunning(b) /\ nwait[b] = MaxAwait /\ ~unseen[b] /\ IsCancelled(b)

\* The body of t is suspended inside ctx.cancelled().
InCancelled(t) == tpc[t] = "await"

\* C18: ctx.cancelled() returns only in states where cancellation has been
\* requested for the task, and once cancellation has been requested every
\* call of it that is suspended, a second call after an earlier one returned
\* included, returns.
C18_CancelledWaitsForRequest ==
  /\ [][\A t \in Sub : (InCancelled(t) /\ ~InCancelled(t)') => IsCancelled(t)]_vars
  /\ \A t \in Sub : (InCancelled(t) /\ IsCancelled(t)) ~> ~InCancelled(t)

\* The body of t has acquired the global permit, resp. the type-scoped
\* permit, and has not yet dropped it at the end of the async block.
HoldsGlobalPermit(t) ==
  /\ glimit # {}
  /\ tpc[t] \in {"type", "setrun", "exec", "await", "release", "unreg", "wake",
                 "term", "send", "notify", "exit"}
HoldsTypePermit(t) ==
  /\ ct[t].max # {}
  /\ tpc[t] \in {"setrun", "exec", "await", "release", "unreg", "wake",
                 "term", "send", "notify", "exit"}

\* Every permit missing from a pool is in the hands of one body.
PermitsAccounted ==
  /\ glimit # {}
       => \A n \in glimit : gsem + Cardinality({t \in Sub : HoldsGlobalPermit(t)}) = n
  /\ \A T \in DOMAIN tsem :
       tsem[T].free
         + Cardinality({t \in Sub : ct[t].type = T /\ HoldsTypePermit(t)})
           = tsem[T].cap

\* submit has returned the handle of t: the type gate and try_acquire are
\* behind it.
GatesPassed(t) ==
  /\ Admitted(t)
  /\ spc[t] \in {"spawned", "tracked", "ok"}
  /\ ct[t].rgl => seen[t] = 0 \/ ct[t].queueable

\* C19, as stated: every Running task holds all of its declared keys, a
\* global permit when a ceiling is configured, and a type-scoped permit when
\* it declares max_concurrent.
C19_RunningHoldsEverything ==
  \A t \in Sub :
    IsRunning(t)
      => /\ ct[t].locks \subseteq held
         /\ glimit # {} => HoldsGlobalPermit(t)
         /\ ct[t].max # {} => HoldsTypePermit(t)

\* C19, amended: every Running task holds a global permit when a ceiling is
\* configured and a type-scoped permit when it declares max_concurrent, and
\* holds all of its declared keys until its body has released them (the
\* state stays Running from the release to the terminal write); permits are
\* taken only by bodies whose submit passed the type gate and try_acquire,
\* and every permit taken from a pool is held by one such body.
C19_GatesBeforeRunning ==
  /\ \A t \in Sub :
       IsRunning(t)
         => /\ BeforeRelease(t) => ct[t].locks \subseteq held
            /\ glimit # {} => HoldsGlobalPermit(t)
            /\ ct[t].max # {} => HoldsTypePermit(t)
  /\ \A t \in Sub :
       (HoldsGlobalPermit(t) \/ HoldsTypePermit(t)) => GatesPassed(t)
  /\ PermitsAccounted

\* C19 witness: a task is Pending, parked in front of an exhausted global
\* pool, while it is its type's Running Registry entry and holds its key;
\* the permit it waits for is held by a task that is still Running, with a
\* type-scoped permit, after having released that key.
C19_Witness ==
  \E a, b \in Sub :
    /\ tstate[a] = "Pending" /\ tpc[a] = "global" /\ gsem = 0
    /\ ct[a].type \in DOMAIN running /\ running[ct[a].type] = a
    /\ ct[a].locks # {} /\ ct[a].locks \subseteq held
    /\ IsRunning(b) /\ ~BeforeRelease(b) /\ HoldsGlobalPermit(b) /\ HoldsTypePermit(b)

\* Submission s takes the step that looks its type's pool up or creates it.
TypeSemStep(s) == spc[s] = "typesem" /\ spc'[s] # "typesem"

\* A type's pool comes into being only in the pool step of a submission of
\* that type, full and sized to that contract's max_concurrent; from then on
\* it stays in the table with the same capacity, whatever later contracts of
\* the type declare.
PoolFixedByFirst ==
  \A T \in Types :
    /\ (T \notin DOMAIN tsem /\ T \in DOMAIN tsem')
         => \E s \in Sub :
              /\ TypeSemStep(s) /\ ct[s].type = T
              /\ \E n \in ct[s].max : tsem'[T] = [cap |-> n, free |-> n]
    /\ T \in DOMAIN tsem
         => /\ T \in DOMAIN tsem' /\ tsem'[T].cap = tsem[T].cap
            /\ \A s \in Sub : (TypeSemStep(s) /\ ct[s].type = T) => tsem'[T] = tsem[T]

\* C20, as stated: the pool is fixed by the first declaring contract, and
\* the number of Running tasks of the type never exceeds its capacity.
C20_PoolBoundsType ==
  /\ [][PoolFixedByFirst]_vars
  /\ [](\A T \in DOMAIN tsem : Cardinality(RunningOf(T)) <= tsem[T].cap)

\* C20, amended: the pool is fixed by the first declaring contract, and the
\* number of Running tasks of the type that declare a max_concurrent (any
\* value) never exceeds its capacity; a task of the type that declares none
\* takes no permit and is not counted.
C20_PoolBoundsDeclaring ==
  /\ [][PoolFixedByFirst]_vars
  /\ [](\A T \in DOMAIN tsem :
          Cardinality({t \in RunningOf(T) : ct[t].max # {}}) <= tsem[T].cap)

\* C20 witness: the pool was created with capacity 1, a later task of the
\* type declaring 2 is parked on it while the one permit is out, and the
\* pool still has capacity 1.
C20_Witness ==
  \E T \in DOMAIN tsem, a, b \in Sub :
    /\ tsem[T] = [cap |-> 1, free |-> 0]
    /\ ct[a].type = T /\ ct[a].max = {1} /\ IsRunning(a)
    /\ ct[b].type = T /\ ct[b].max = {2} /\ tpc[b] = "type"

\* t has given its keys back (a key of its that is held is held by another
\* task), and t is not the entry of any type's slot.
KeysGivenBack(t) ==
  \A K \in ct[t].locks :
    K \in held => \E u \in Sub \ {t} : HoldsLocks(u) /\ K \in ct[u].locks
SlotFreed(t) == \A T \in DOMAIN running : running[T] # t

\* Steps of the end of a body, told by what they write.
TerminalStep(t) == ~IsTerminal(t) /\ IsTerminal(t)'
SendStep(t) == sent[t] = "none" /\ sent'[t] # "none"
NotifyStep(t) == tpc[t] = "notify" /\ tpc'[t] # "notify"

\* C21: after the body returned, the steps come in the order release,
\* registry removal and wake, terminal state, result, completion signal:
\* each step finds the earlier ones done and the later ones not; so whenever
\* the result has been published or completion has been signalled, the state
\* is terminal, the keys are given back and the type slot is freed.
C21_CompletionOrder ==
  [][\A t \in Sub :
       /\ ReleaseStep(t)
            => res[t] # "none" /\ IsRunning(t) /\ sent[t] = "none"
       /\ UnregisterStep(t)
            => KeysGivenBack(t) /\ IsRunning(t) /\ sent[t] = "none"
       /\ WakeStep(t)
            => KeysGivenBack(t) /\ SlotFreed(t) /\ IsRunning(t) /\ sent[t] = "none"
       /\ TerminalStep(t)
            => /\ KeysGivenBack(t) /\ SlotFreed(t) /\ sent[t] = "none"
               /\ tpc[t] \notin {"unreg", "wake"} /\ tpc'[t] \notin {"unreg", "wake"}
               /\ ct[t].rgl => tpc[t] # "release"
       /\ SendStep(t) => IsTerminal(t) /\ tpc[t] # "exit"
       /\ NotifyStep(t) => IsTerminal(t) /\ sent[t] # "none"
       /\ (sent'[t] # "none" \/ tpc'[t] \in {"exit", "done"})
            => IsTerminal(t)' /\ KeysGivenBack(t)' /\ SlotFreed(t)']_vars

\* C21 witness: a task that required the global lock and held a key has
\* signalled completion after a failed body, and the waiter it woke has
\* been admitted with the same key.
C21_Witness ==
  \E t, w \in Sub :
    /\ ct[t].rgl /\ ct[t].locks # {} /\ tpc[t] \in {"exit", "done"}
    /\ sent[t] = "Err" /\ tstate[t] = "Failed"
    /\ seen[w] = t /\ ct[w].locks = ct[t].locks /\ HoldsLocks(w)

\* t requires the global lock, submit has recorded it in the Running
\* Registry, and its body has not yet executed the removal.
Registered(t) ==
  /\ ct[t].rgl
  /\ spc[t] \in {"typesem", "spawned", "tracked", "ok"}
  /\ tpc[t] \in {"none", "global", "type", "setrun", "exec", "await", "release", "unreg"}

\* C22: the Running Registry has an entry for type T exactly when some task
\* of T is registered (recorded by submit, removal not yet executed), the
\* entry names that task, and a completing task removes only an entry that
\* names itself.
C22_RegistryConsistent ==
  /\ [](\A T \in Types :
          /\ T \in DOMAIN running <=> \E t \in Sub : ct[t].type = T /\ Registered(t)
          /\ \A t \in Sub : (ct[t].type = T /\ Registered(t)) => running[T] = t)
  /\ [][\A t \in Sub :
          UnregisterStep(t)
            => ct[t].type \in DOMAIN running /\ running[ct[t].type] = t]_vars

\* w sits in its type's wait queue and has not been woken.
UnwokenWaiter(w) ==
  /\ spc[w] = "wait" /\ ~wake[w]
  /\ ct[w].type \in DOMAIN queues
  /\ \E i \in 1..Len(queues[ct[w].type]) : queues[ct[w].type][i] = w

\* t will still execute the wake step of its type: its body has been or is
\* about to be spawned and the wake step is in front of it, or it is a woken
\* waiter on its way to try_acquire.
WillWake(t) ==
  /\ ct[t].rgl
  /\ \/ spc[t] = "wait" /\ wake[t]
     \/ spc[t] \in {"acquire", "insert", "typesem"}
     \/ /\ spc[t] \in {"spawned", "tracked", "ok"}
        /\ tpc[t] \in {"none", "global", "type", "setrun", "exec", "await",
                       "release", "unreg", "wake"}

\* C23: whenever a type's wait queue holds a waiter that has not been woken,
\* the Running Registry holds the type or some task of the type will still
\* execute the wake step; a woken waiter that fails at try_acquire does not
\* leave the other waiters of its type behind.
C23_NoStrandedWaiter ==
  \A w \in Sub :
    UnwokenWaiter(w)
      => \/ ct[w].type \in DOMAIN running
         \/ \E t \in Sub \ {w} : ct[t].type = ct[w].type /\ WillWake(t)

\* The step is the return of a call of the named AccountManager operation.
AccountCall(op) == aret' # aret /\ aret'.op = op

\* C24: remove(idx) with idx in range takes that account out, clears the
\* selection when it was idx and otherwise leaves it on the same account,
\* one lower when it was above idx; remove(idx) out of range changes
\* neither the accounts nor the selection; add_offline appends the account,
\* selects it and returns its index.
C24_SelectionTracking ==
  [][/\ AccountCall("remove")
          => \A idx \in aret'.idx :
               IF idx < Len(accounts)
                 THEN /\ Len(accounts') = Len(accounts) - 1
                      /\ \A i \in 0..(Len(accounts) - 1) :
                           /\ i < idx => VecGet(accounts', i) = VecGet(accounts, i)
                           /\ i > idx => VecGet(accounts', i - 1) = VecGet(accounts, i)
                      /\ current = {idx} => current' = {}
                      /\ current # {idx}
                           => /\ CurrentAccount(accounts', current')
                                   = CurrentAccount(accounts, current)
                              /\ current' = {IF c > idx THEN c - 1 ELSE c : c \in current}
                 ELSE accounts' = accounts /\ current' = current
     /\ AccountCall("add_offline")
          => /\ accounts' = Append(accounts, OfflineAccount(aret'.name))
             /\ current' = {Len(accounts)}
             /\ aret'.ret = {Len(accounts)}
             /\ CurrentAccount(accounts', current') = {OfflineAccount(aret'.name)}]_vars

\* C24 witness: with "steve" selected behind "alex", remove(0) has taken
\* "alex" out and the selection, now index 0, still designates "steve".
C24_Witness ==
  /\ aret.op = "remove" /\ aret.idx = {0}
  /\ current = {0}
  /\ Len(accounts) >= 1 /\ accounts[1] = OfflineAccount("steve")

====
